---- MODULE Spec2Model ----
(***************************************************************************)
(* Model of the calver-release tool: the CalVer generator (lib/calver),    *)
(* the git wrapper (lib/git-operations) and the `create` command of        *)
(* bin/calver-release.js.                                                  *)
(*                                                                         *)
(* Strings that the program inspects character by character (versions,     *)
(* tag names, branch names) are sequences of one-character strings.        *)
(* Format specifiers are only compared as wholes and stay atomic strings.  *)
(***************************************************************************)
EXTENDS Integers, Sequences, FiniteSets, TLC

\* ------------------------------------------------------------------ bounds
\* longest list of existing versions handed to generateIncremental in the
\* pure-function specification
MaxExisting == 3

\* ------------------------------------------------------- string primitives
Digits == <<"0", "1", "2", "3", "4", "5", "6", "7", "8", "9">>

IsDigit(c) == \E i \in 1..10 : Digits[i] = c

DigitVal(c) == (CHOOSE i \in 1..10 : Digits[i] = c) - 1

\* String.prototype.startsWith
StartsWith(s, p) == Len(p) <= Len(s) /\ SubSeq(s, 1, Len(p)) = p

\* p occurs in s at (1-based) position i
OccursAt(s, p, i) == i >= 1 /\ i + Len(p) - 1 <= Len(s) /\ SubSeq(s, i, i + Len(p) - 1) = p

\* String.prototype.includes
Includes(s, p) == \E i \in 1..(Len(s) + 1) : OccursAt(s, p, i)

\* Array.prototype.includes
ArrayIncludes(arr, x) == \E i \in 1..Len(arr) : arr[i] = x

\* v.split('.') followed by parts[parts.length - 1]: the text after the last dot
RECURSIVE LastPart(_)
LastPart(v) ==
  IF \E i \in 1..Len(v) : v[i] = "."
    THEN LastPart(SubSeq(v, (CHOOSE i \in 1..Len(v) : v[i] = ".") + 1, Len(v)))
    ELSE v

\* decimal value of the longest prefix of digits of s, acc carried along
RECURSIVE DigitPrefixVal(_, _)
DigitPrefixVal(s, acc) ==
  IF s = <<>> \/ ~IsDigit(Head(s)) THEN acc
  ELSE DigitPrefixVal(Tail(s), acc * 10 + DigitVal(Head(s)))

\* parseInt(s) with no radix: optional sign, then the leading decimal digits;
\* NaN when there is no digit.  (The modelled alphabet has no whitespace and
\* no "0x" prefix.)
parseInt(s) ==
  LET neg  == s # <<>> /\ Head(s) = "-"
      body == IF s # <<>> /\ Head(s) \in {"-", "+"} THEN Tail(s) ELSE s
  IN IF body = <<>> \/ ~IsDigit(Head(body))
       THEN [nan |-> TRUE, val |-> 0]
       ELSE [nan |-> FALSE,
             val |-> IF neg THEN 0 - DigitPrefixVal(body, 0) ELSE DigitPrefixVal(body, 0)]

\* `x || 0` applied to a parseInt result: NaN and 0 are falsy
OrZero(r) == IF r.nan \/ r.val = 0 THEN 0 ELSE r.val

\* template-literal rendering of an integer
RECURSIVE NatToString(_)
NatToString(n) ==
  IF n < 10 THEN <<Digits[n + 1]>>
  ELSE NatToString(n \div 10) \o <<Digits[(n % 10) + 1]>>

IntToString(n) == IF n < 0 THEN <<"-">> \o NatToString(0 - n) ELSE NatToString(n)

\* zero padding to a width, as moment's MM / DD / WW / YY tokens do
RECURSIVE PadLeft(_, _)
PadLeft(s, w) == IF Len(s) >= w THEN s ELSE PadLeft(<<"0">> \o s, w)

\* Array.prototype.sort((a, b) => b - a): descending insertion sort
RECURSIVE InsertDesc(_, _)
InsertDesc(x, arr) ==
  IF arr = <<>> THEN <<x>>
  ELSE IF x >= Head(arr) THEN <<x>> \o arr
  ELSE <<Head(arr)>> \o InsertDesc(x, Tail(arr))

RECURSIVE SortDesc(_)
SortDesc(arr) == IF arr = <<>> THEN <<>> ELSE InsertDesc(Head(arr), SortDesc(Tail(arr)))

\* ------------------------------------------------------ lib/calver.js
\* a point in time, reduced to the UTC fields moment renders
Today == [year |-> 2024, month |-> 1, day |-> 15, isoWeek |-> 3, dayOfYear |-> 15]

Dot == <<".">>

\* moment(date).utc().format(template) for the templates the model uses
momentFormat(m, template) ==
  LET YYYY == PadLeft(NatToString(m.year), 4)
      YY   == PadLeft(NatToString(m.year % 100), 2)
      MM   == PadLeft(NatToString(m.month), 2)
      M    == NatToString(m.month)
      DD   == PadLeft(NatToString(m.day), 2)
      WW   == PadLeft(NatToString(m.isoWeek), 2)
      DDD  == NatToString(m.dayOfYear)
  IN CASE template = "YYYY.MM.DD" -> YYYY \o Dot \o MM \o Dot \o DD
       [] template = "YY.MM.DD"   -> YY \o Dot \o MM \o Dot \o DD
       [] template = "YYYY.MM"    -> YYYY \o Dot \o MM
       [] template = "YYYY.WW"    -> YYYY \o Dot \o WW
       [] template = "YYYYMMDD"   -> YYYY \o MM \o DD
       [] template = "YYYY.DDD"   -> YYYY \o Dot \o DDD
       [] template = "YYYY.M"     -> YYYY \o Dot \o M

\* String.prototype.toLowerCase on the format specifiers of the model
toLowerCase(f) ==
  CASE f = "YYYY.MM.DD" -> "yyyy.mm.dd"
    [] f = "YY.MM.DD"   -> "yy.mm.dd"
    [] f = "YYYY.MM"    -> "yyyy.mm"
    [] f = "YYYY.WW"    -> "yyyy.ww"
    [] f = "YYYYMMDD"   -> "yyyymmdd"
    [] f = "YYYY.DDD"   -> "yyyy.ddd"
    [] f = "YYYY.M"     -> "yyyy.m"
    [] OTHER            -> f

\* CalVerGenerator.generate
generate(date, format) ==
  LET lower == toLowerCase(format)
  IN CASE lower = "yyyy.mm.dd" -> momentFormat(date, "YYYY.MM.DD")
       [] lower = "yy.mm.dd"   -> momentFormat(date, "YY.MM.DD")
       [] lower = "yyyy.mm"    -> momentFormat(date, "YYYY.MM")
       [] lower = "yyyy.ww"    -> momentFormat(date, "YYYY.WW")
       [] lower = "yyyymmdd"   -> momentFormat(date, "YYYYMMDD")
       [] lower = "yyyy.ddd"   -> momentFormat(date, "YYYY.DDD")
       [] OTHER                -> momentFormat(date, format)

\* CalVerGenerator.getSupportedFormats (the names)
getSupportedFormats == <<"YYYY.MM.DD", "YY.MM.DD", "YYYY.MM", "YYYY.WW", "YYYYMMDD", "YYYY.DDD">>

\* generateIncremental with the filter written as an equality test
generateIncremental_exact(baseVersion, existingVersions) ==
  LET filtered == SelectSeq(existingVersions, LAMBDA v : v = baseVersion)
      mapped == [i \in 1..Len(filtered) |-> OrZero(parseInt(LastPart(filtered[i])))]
      matchingVersions == SortDesc(mapped)
  IN IF Len(matchingVersions) = 0 THEN baseVersion
     ELSE baseVersion \o Dot \o IntToString(matchingVersions[1] + 1)

\* CalVerGenerator.generateIncremental
generateIncremental(baseVersion, existingVersions) ==
  LET filtered == SelectSeq(existingVersions, LAMBDA v : StartsWith(v, baseVersion))
      mapped == [i \in 1..Len(filtered) |-> OrZero(parseInt(LastPart(filtered[i])))]
      matchingVersions == SortDesc(mapped)
  IN IF Len(matchingVersions) = 0 THEN baseVersion
     ELSE baseVersion \o Dot \o IntToString(matchingVersions[1] + 1)

\* ------------------------------------------------ lib/git-operations.js
\* Every wrapper takes gitOk, whether the underlying simple-git call
\* resolved, and returns [ok, value]: ok = FALSE is a rejected promise.
Origin == <<"o", "r", "i", "g", "i", "n">>

Slash == <<"/">>

\* GitOperations.isGitRepo
isGitRepo(gitOk) == [ok |-> TRUE, value |-> gitOk]

\* GitOperations.getRepoInfo
getRepoInfo(gitOk, head) == [ok |-> gitOk, value |-> head]

\* GitOperations.branchExists
branchExists(gitOk, branches, branchName_) ==
  [ok |-> TRUE, value |-> gitOk /\ ArrayIncludes(branches, branchName_)]

\* GitOperations.remoteBranchExists
remoteBranchExists(gitOk, branches, branchName_, remote) ==
  [ok |-> TRUE,
   value |-> gitOk /\ \E i \in 1..Len(branches) :
                         Includes(branches[i], remote \o Slash \o branchName_)]

\* the two regular expressions the tool builds, as data: the RegExp of
\* calver-release.js line 73 (`^v?${base}`) and of line 74 (`release.*${base}`),
\* the dots of base escaped
ReleaseWord == <<"r", "e", "l", "e", "a", "s", "e">>

TagPattern(base) == [re |-> "^v?base", base |-> base]

BranchPattern(base) == [re |-> "release.*base", base |-> base]

\* String.prototype.match(pattern) as a test
Matches(str, pattern) ==
  IF pattern.re = "^v?base"
    THEN StartsWith(str, pattern.base) \/ StartsWith(str, <<"v">> \o pattern.base)
    ELSE \E i \in 1..Len(str) :
           /\ OccursAt(str, ReleaseWord, i)
           /\ \E j \in (i + Len(ReleaseWord))..(Len(str) + 1) : OccursAt(str, pattern.base, j)

\* getMatchingTags letting the failure of git.tags() escape
getMatchingTags_throwing(gitOk, allTags, pattern) ==
  [ok |-> gitOk,
   value |-> IF gitOk THEN SelectSeq(allTags, LAMBDA t : Matches(t, pattern)) ELSE <<>>]

\* GitOperations.getMatchingTags
getMatchingTags(gitOk, allTags, pattern) ==
  [ok |-> TRUE,
   value |-> IF gitOk THEN SelectSeq(allTags, LAMBDA t : Matches(t, pattern)) ELSE <<>>]

\* GitOperations.getMatchingBranches
getMatchingBranches(gitOk, branches, pattern) ==
  [ok |-> TRUE,
   value |-> IF gitOk THEN SelectSeq(branches, LAMBDA b : Matches(b, pattern)) ELSE <<>>]

\* ------------------------------------------------ bin/calver-release.js
ReleasePrefix == ReleaseWord \o Slash \o <<"v">>

\* tag.replace(/^v/, '')
StripV(tag) == IF StartsWith(tag, <<"v">>) THEN Tail(tag) ELSE tag

\* branch.replace(/^release\/v?/, '')
StripRelease(branch) ==
  IF StartsWith(branch, ReleaseWord \o Slash)
    THEN StripV(SubSeq(branch, Len(ReleaseWord) + 2, Len(branch)))
    ELSE branch

\* the list handed to generateIncremental
ExistingVersions(tagList, branchList) ==
  [i \in 1..Len(tagList) |-> StripV(tagList[i])] \o
  [i \in 1..Len(branchList) |-> StripRelease(branchList[i])]

\* { ...options, ...answers }
runInteractiveMode(opts, answers) ==
  [opts EXCEPT !.format = answers.format, !.baseBranch = answers.baseBranch,
               !.push = answers.push]

\* line 49: the repository check
CheckIsRepo(inRepo) == IF inRepo THEN "none" ELSE "NotARepository"

\* line 98: the local existence check
CheckLocal(exists) == IF exists THEN "ExistsLocally" ELSE "none"

\* the remote existence check left out
CheckRemote_skipped(exists) == "none"

\* line 102: the remote existence check
CheckRemote(exists) == IF exists THEN "ExistsRemote" ELSE "none"

\* the dry-run test placed inside the non-interactive branch
AfterChecks_lateDryRun(opts) ==
  IF ~opts.interactive
    THEN (IF opts.dryRun THEN "dryRunExit" ELSE "confirm")
    ELSE "createBranch"

\* the confirmation prompt left out
AfterChecks_noConfirm(opts) == IF opts.dryRun THEN "dryRunExit" ELSE "createBranch"

\* lines 106-131: what follows the existence checks
AfterChecks(opts) ==
  IF opts.dryRun THEN "dryRunExit"
  ELSE IF ~opts.interactive THEN "confirm"
  ELSE "createBranch"

\* createBranch, line 81: `if (fromBranch)`
createBranchEntry(fromBranch) == IF fromBranch # <<>> THEN "checkout" ELSE "checkoutLocalBranch"

\* a failed pull swallowed instead of propagated
createBranchNext_swallow(stage, ok, opts, cfg) ==
  IF ~ok /\ stage # "pull" THEN "thrown"
  ELSE CASE stage = "checkout"            -> "pull"
         [] stage = "pull"                -> "checkoutLocalBranch"
         [] stage = "checkoutLocalBranch" -> IF cfg.push THEN "push" ELSE "returned"
         [] stage = "push"                -> "returned"

\* the push decision read from the command line options, not from config
createBranchNext_optsPush(stage, ok, opts, cfg) ==
  IF ~ok THEN "thrown"
  ELSE CASE stage = "checkout"            -> "pull"
         [] stage = "pull"                -> "checkoutLocalBranch"
         [] stage = "checkoutLocalBranch" -> IF opts.push THEN "push" ELSE "returned"
         [] stage = "push"                -> "returned"

\* createBranch / pushBranch and lines 133-141: the stage that follows a git
\* call; a rejected call propagates to the catch of the create action
createBranchNext(stage, ok, opts, cfg) ==
  IF ~ok THEN "thrown"
  ELSE CASE stage = "checkout"            -> "pull"
         [] stage = "pull"                -> "checkoutLocalBranch"
         [] stage = "checkoutLocalBranch" -> IF cfg.push THEN "push" ELSE "returned"
         [] stage = "push"                -> "returned"

\* the catch handler without process.exit(1)
ExitStatus_zero(threw) == 0

\* lines 24-31: status of the process
ExitStatus(threw) == IF threw THEN 1 ELSE 0

\* ------------------------------------------------------------ the inputs
V15 == <<"2", "0", "2", "4", ".", "0", "1", ".", "1", "5">>

Main == <<"m", "a", "i", "n">>

Develop == <<"d", "e", "v", "e", "l", "o", "p">>

TagUniverse == << <<"v">> \o V15, <<"v">> \o V15 \o <<".", "3">> >>

BranchUniverse == << ReleasePrefix \o V15, ReleasePrefix \o V15 \o <<".", "1">> >>

RemoteUniverse ==
  << Origin \o Slash \o ReleasePrefix \o V15,
     Origin \o Slash \o ReleasePrefix \o V15 \o <<".", "1">> >>

RECURSIVE PickFrom(_, _, _)
PickFrom(u, S, i) ==
  IF i > Len(u) THEN <<>>
  ELSE (IF i \in S THEN <<u[i]>> ELSE <<>>) \o PickFrom(u, S, i + 1)

Lists(u) == {PickFrom(u, S, 1) : S \in SUBSET (1..Len(u))}

CliFormats == {"YYYY.MM.DD", "yyyy.mm"}

AnswerFormats == {"YYYY.MM.DD", "YYYYMMDD"}

OptionsSet ==
  [format : CliFormats, baseBranch : {Main, <<>>}, push : BOOLEAN,
   dryRun : BOOLEAN, interactive : BOOLEAN]

AnswersSet == [format : AnswerFormats, baseBranch : {Main, Develop}, push : BOOLEAN]

\* inputs of the pure-function specification
IncBases == {V15, <<"2", "0", "2", "4", ".", "1">>, <<"2", "0", "2", "4", "0", "1", "1", "5">>}

IncUniverse ==
  { V15,
    V15 \o <<".", "3">>,
    V15 \o <<".", "1">>,
    <<"2", "0", "2", "3", ".", "1", "2", ".", "0", "1">>,
    <<"2", "0", "2", "4", ".", "1", "0", ".", "1">>,
    <<"2", "0", "2", "4", ".", "1", ".", "r", "c">>,
    <<"2", "0", "2", "4", "0", "1", "1", "5">> }

RECURSIVE SeqsUpTo(_, _)
SeqsUpTo(U, n) ==
  IF n = 0 THEN {<<>>}
  ELSE LET shorter == SeqsUpTo(U, n - 1)
       IN shorter \cup {Append(q, x) : q \in shorter, x \in U}

\* ---------------------------------------------------------------- state
VARIABLES
  options,          \* the parsed command line of `create`
  config,           \* options, or options merged with the interactive answers
  tags,             \* repository: tag names
  localBranches,    \* repository: local branch names
  remoteBranches,   \* repository: remote-tracking branch names
  currentBranch,    \* repository: the checked-out branch
  pc,               \* the await createReleaseBranch is suspended at
  baseVersion, existingTags, existingBranches, finalVersion, branchName,
  isRepoResult,     \* what isGitRepo returned
  localExists,      \* what branchExists returned
  remoteExists,     \* what remoteBranchExists returned
  confirmAnswer,    \* the answer to `Create release branch ...?`
  invoked,          \* createBranch / pushBranch invocations, in order
  gitCalls,         \* mutating simple-git calls attempted, in order
  gitFailed,        \* the simple-git calls that rejected
  error,            \* the error thrown out of createReleaseBranch
  exitCode,         \* -1 while the process runs
  output,           \* console lines that matter
  incBase, incExisting, incResult, incPc   \* generateIncremental on its own

repoVars == <<tags, localBranches, remoteBranches, currentBranch>>

localVars == <<baseVersion, existingTags, existingBranches, finalVersion, branchName>>

resultVars == <<isRepoResult, localExists, remoteExists, confirmAnswer>>

incVars == <<incBase, incExisting, incResult, incPc>>

vars == <<options, config, repoVars, pc, localVars, resultVars, invoked, gitCalls,
          gitFailed, error, exitCode, output, incVars>>

BoolStr(b) == IF b THEN "true" ELSE "false"

Failed(gitOk, call) == IF gitOk THEN gitFailed ELSE gitFailed \cup {call}

RunStart ==
  /\ config = options
  /\ baseVersion = <<>> /\ existingTags = <<>> /\ existingBranches = <<>>
  /\ finalVersion = <<>> /\ branchName = <<>>
  /\ isRepoResult = "unknown" /\ localExists = "unknown" /\ remoteExists = "unknown"
  /\ confirmAnswer = "unasked"
  /\ invoked = <<>> /\ gitCalls = <<>> /\ gitFailed = {}
  /\ error = "none" /\ exitCode = -1 /\ output = <<>>

IncIdle == incBase = <<>> /\ incExisting = <<>> /\ incResult = <<>> /\ incPc = "idle"

Init ==
  /\ options \in OptionsSet
  /\ tags \in Lists(TagUniverse)
  /\ localBranches \in {<<Main>> \o l : l \in Lists(BranchUniverse)}
  /\ remoteBranches \in {<<Origin \o Slash \o Main>> \o l : l \in Lists(RemoteUniverse)}
  /\ currentBranch = Main
  /\ pc = "isGitRepo"
  /\ RunStart
  /\ IncIdle

\* -------------------------------------------------------------- actions
\* Each action is the continuation that runs when the awaited call settles,
\* up to the next await.

Out(kind, text) == [kind |-> kind, text |-> text]

\* lines 68-70: new CalVerGenerator({ format }).generate()
BaseVersionOf(cfg) == generate(Today, cfg.format)

\* lines 46-51
IsGitRepoStep ==
  /\ pc = "isGitRepo"
  /\ \E gitOk \in BOOLEAN :
       LET r == isGitRepo(gitOk)
           thrown == IF r.ok THEN CheckIsRepo(r.value) ELSE "GitFailed"
       IN /\ gitFailed' = Failed(gitOk, "status")
          /\ isRepoResult' = BoolStr(r.value)
          /\ error' = thrown
          /\ pc' = IF thrown = "none" THEN "getRepoInfo" ELSE "thrown"
  /\ UNCHANGED <<options, config, repoVars, localVars, localExists, remoteExists,
                 confirmAnswer, invoked, gitCalls, exitCode, output, incVars>>

\* lines 54-73 when --interactive is off, lines 54-65 when it is on
GetRepoInfoStep ==
  /\ pc = "getRepoInfo"
  /\ \E gitOk \in BOOLEAN :
       LET r == getRepoInfo(gitOk, currentBranch)
       IN /\ gitFailed' = Failed(gitOk, "repoInfo")
          /\ IF ~r.ok
               THEN /\ error' = "RepoInfoFailed"
                    /\ pc' = "thrown"
                    /\ UNCHANGED <<config, baseVersion, output>>
               ELSE /\ error' = error
                    /\ output' = Append(output, Out("Repository", r.value))
                    /\ config' = options
                    /\ IF options.interactive
                         THEN pc' = "runInteractiveMode" /\ UNCHANGED baseVersion
                         ELSE pc' = "getMatchingTags" /\ baseVersion' = BaseVersionOf(options)
  /\ UNCHANGED <<options, repoVars, existingTags, existingBranches, finalVersion,
                 branchName, resultVars, invoked, gitCalls, exitCode, incVars>>

\* lines 151-180 and 65-73: the guided prompts are answered
RunInteractiveModeStep ==
  /\ pc = "runInteractiveMode"
  /\ \E answers \in AnswersSet :
       /\ config' = runInteractiveMode(options, answers)
       /\ baseVersion' = BaseVersionOf(config')
  /\ pc' = "getMatchingTags"
  /\ UNCHANGED <<options, repoVars, existingTags, existingBranches, finalVersion,
                 branchName, resultVars, invoked, gitCalls, gitFailed, error,
                 exitCode, output, incVars>>

\* lines 73-74
GetMatchingTagsStep ==
  /\ pc = "getMatchingTags"
  /\ \E gitOk \in BOOLEAN :
       LET r == getMatchingTags(gitOk, tags, TagPattern(baseVersion))
       IN /\ gitFailed' = Failed(gitOk, "tags")
          /\ IF ~r.ok
               THEN error' = "QueryFailed" /\ pc' = "thrown" /\ UNCHANGED existingTags
               ELSE error' = error /\ pc' = "getMatchingBranches" /\ existingTags' = r.value
  /\ UNCHANGED <<options, config, repoVars, baseVersion, existingBranches, finalVersion,
                 branchName, resultVars, invoked, gitCalls, exitCode, output, incVars>>

\* lines 74-98
GetMatchingBranchesStep ==
  /\ pc = "getMatchingBranches"
  /\ \E gitOk \in BOOLEAN :
       LET r == getMatchingBranches(gitOk, localBranches, BranchPattern(baseVersion))
       IN /\ gitFailed' = Failed(gitOk, "branchLocal.list")
          /\ IF ~r.ok
               THEN /\ error' = "QueryFailed" /\ pc' = "thrown"
                    /\ UNCHANGED <<existingBranches, finalVersion, branchName, output>>
               ELSE /\ error' = error
                    /\ pc' = "branchExists"
                    /\ existingBranches' = r.value
                    /\ finalVersion' =
                         generateIncremental(baseVersion,
                                             ExistingVersions(existingTags, r.value))
                    /\ branchName' = ReleasePrefix \o finalVersion'
                    /\ output' = output \o <<Out("Final version", finalVersion'),
                                             Out("Branch name", branchName')>>
  /\ UNCHANGED <<options, config, repoVars, baseVersion, existingTags, resultVars,
                 invoked, gitCalls, exitCode, incVars>>

\* lines 98-102
BranchExistsStep ==
  /\ pc = "branchExists"
  /\ \E gitOk \in BOOLEAN :
       LET r == branchExists(gitOk, localBranches, branchName)
           thrown == IF r.ok THEN CheckLocal(r.value) ELSE "GitFailed"
       IN /\ gitFailed' = Failed(gitOk, "branchLocal.exists")
          /\ localExists' = BoolStr(r.value)
          /\ error' = thrown
          /\ pc' = IF thrown = "none" THEN "remoteBranchExists" ELSE "thrown"
  /\ UNCHANGED <<options, config, repoVars, localVars, isRepoResult, remoteExists,
                 confirmAnswer, invoked, gitCalls, exitCode, output, incVars>>

\* line 133 and the synchronous head of createBranch
EnterCreateBranch ==
  /\ invoked' = Append(invoked, <<"createBranch", branchName, config.baseBranch>>)
  /\ pc' = createBranchEntry(config.baseBranch)

\* lines 102-133
RemoteBranchExistsStep ==
  /\ pc = "remoteBranchExists"
  /\ \E gitOk \in BOOLEAN :
       LET r == remoteBranchExists(gitOk, remoteBranches, branchName, Origin)
           thrown == IF r.ok THEN CheckRemote(r.value) ELSE "GitFailed"
           stage == AfterChecks(options)
       IN /\ gitFailed' = Failed(gitOk, "branch.remote")
          /\ remoteExists' = BoolStr(r.value)
          /\ error' = thrown
          /\ IF thrown # "none"
               THEN pc' = "thrown" /\ UNCHANGED <<invoked, output>>
               ELSE CASE stage = "dryRunExit" ->
                           /\ output' = output \o
                                <<Out("Would create branch", branchName),
                                  Out("From base branch", config.baseBranch)>> \o
                                (IF config.push THEN <<Out("Would push to remote", Origin)>>
                                 ELSE <<>>)
                           /\ pc' = "returned"
                           /\ UNCHANGED invoked
                      [] stage = "confirm" ->
                           pc' = "confirm" /\ UNCHANGED <<invoked, output>>
                      [] stage = "createBranch" ->
                           EnterCreateBranch /\ UNCHANGED output
  /\ UNCHANGED <<options, config, repoVars, localVars, isRepoResult, localExists,
                 confirmAnswer, gitCalls, exitCode, incVars>>

\* lines 117-133: the yes/no prompt is answered
ConfirmStep ==
  /\ pc = "confirm"
  /\ \E confirm \in BOOLEAN :
       /\ confirmAnswer' = IF confirm THEN "yes" ELSE "no"
       /\ IF ~confirm
            THEN /\ output' = Append(output, Out("Cancelled", <<>>))
                 /\ pc' = "returned"
                 /\ UNCHANGED invoked
            ELSE EnterCreateBranch /\ UNCHANGED output
  /\ UNCHANGED <<options, config, repoVars, localVars, isRepoResult, localExists,
                 remoteExists, gitCalls, gitFailed, error, exitCode, incVars>>

GitCall(op, arg, ok) == [op |-> op, arg |-> arg, ok |-> ok]

\* what follows a mutating git call of createBranch / pushBranch
AfterGitCall(stage, ok) ==
  LET next == createBranchNext(stage, ok, options, config)
  IN /\ pc' = next
     /\ gitFailed' = Failed(ok, stage)
     /\ error' = IF next = "thrown" THEN "GitFailed" ELSE error
     /\ IF stage = "checkoutLocalBranch" /\ next = "push"
          THEN invoked' = Append(invoked, <<"pushBranch", branchName, Origin>>)
          ELSE UNCHANGED invoked
     /\ IF next = "returned"
          THEN output' = Append(output, Out("Release branch created", branchName))
          ELSE UNCHANGED output

\* createBranch, line 82: git.checkout(fromBranch)
CheckoutStep ==
  /\ pc = "checkout"
  /\ \E gitOk \in BOOLEAN :
       LET ok == gitOk /\ ArrayIncludes(localBranches, config.baseBranch)
       IN /\ gitCalls' = Append(gitCalls, GitCall("checkout", config.baseBranch, ok))
          /\ currentBranch' = IF ok THEN config.baseBranch ELSE currentBranch
          /\ AfterGitCall("checkout", ok)
  /\ UNCHANGED <<options, config, tags, localBranches, remoteBranches, localVars,
                 resultVars, exitCode, incVars>>

\* createBranch, line 83: git.pull()
PullStep ==
  /\ pc = "pull"
  /\ \E gitOk \in BOOLEAN :
       /\ gitCalls' = Append(gitCalls, GitCall("pull", <<>>, gitOk))
       /\ AfterGitCall("pull", gitOk)
  /\ UNCHANGED <<options, config, repoVars, localVars, resultVars, exitCode, incVars>>

\* createBranch, lines 86-87 and lines 136-141: git.checkoutLocalBranch(name),
\* which git refuses when the branch exists
CheckoutLocalBranchStep ==
  /\ pc = "checkoutLocalBranch"
  /\ \E gitOk \in BOOLEAN :
       LET ok == gitOk /\ ~ArrayIncludes(localBranches, branchName)
       IN /\ gitCalls' = Append(gitCalls, GitCall("checkoutLocalBranch", branchName, ok))
          /\ localBranches' = IF ok THEN Append(localBranches, branchName) ELSE localBranches
          /\ currentBranch' = IF ok THEN branchName ELSE currentBranch
          /\ AfterGitCall("checkoutLocalBranch", ok)
  /\ UNCHANGED <<options, config, tags, remoteBranches, localVars, resultVars,
                 exitCode, incVars>>

\* pushBranch, lines 93-96: git.push(['-u', remote, name])
PushStep ==
  /\ pc = "push"
  /\ \E gitOk \in BOOLEAN :
       LET ref == Origin \o Slash \o branchName
       IN /\ gitCalls' = Append(gitCalls, GitCall("push", ref, gitOk))
          /\ remoteBranches' = IF gitOk /\ ~ArrayIncludes(remoteBranches, ref)
                                 THEN Append(remoteBranches, ref) ELSE remoteBranches
          /\ AfterGitCall("push", gitOk)
  /\ UNCHANGED <<options, config, tags, localBranches, currentBranch, localVars,
                 resultVars, exitCode, incVars>>

\* lines 27-30: the catch of the create action
CatchAndExit ==
  /\ pc = "thrown"
  /\ output' = Append(output, Out("Error", <<>>))
  /\ exitCode' = ExitStatus(TRUE)
  /\ pc' = "done"
  /\ UNCHANGED <<options, config, repoVars, localVars, resultVars, invoked, gitCalls,
                 gitFailed, error, incVars>>

\* createReleaseBranch returned; the process ends on its own
NormalExit ==
  /\ pc = "returned"
  /\ exitCode' = ExitStatus(FALSE)
  /\ pc' = "done"
  /\ UNCHANGED <<options, config, repoVars, localVars, resultVars, invoked, gitCalls,
                 gitFailed, error, output, incVars>>

Next ==
  \/ IsGitRepoStep
  \/ GetRepoInfoStep
  \/ RunInteractiveModeStep
  \/ GetMatchingTagsStep
  \/ GetMatchingBranchesStep
  \/ BranchExistsStep
  \/ RemoteBranchExistsStep
  \/ ConfirmStep
  \/ CheckoutStep
  \/ PullStep
  \/ CheckoutLocalBranchStep
  \/ PushStep
  \/ CatchAndExit
  \/ NormalExit

Spec == Init /\ [][Next]_vars

\* ------------------------------------- generateIncremental on its own
RunIdle ==
  /\ options = [format |-> "YYYY.MM.DD", baseBranch |-> Main, push |-> FALSE,
                dryRun |-> FALSE, interactive |-> FALSE]
  /\ tags = <<>> /\ localBranches = <<>> /\ remoteBranches = <<>>
  /\ currentBranch = Main
  /\ pc = "idle"
  /\ RunStart

InitInc ==
  /\ incBase \in IncBases
  /\ incExisting \in SeqsUpTo(IncUniverse, MaxExisting)
  /\ incResult = <<>>
  /\ incPc = "ready"
  /\ RunIdle

\* calver.generateIncremental(incBase, incExisting)
IncApply ==
  /\ incPc = "ready"
  /\ incResult' = generateIncremental(incBase, incExisting)
  /\ incPc' = "done"
  /\ UNCHANGED <<options, config, repoVars, pc, localVars, resultVars, invoked,
                 gitCalls, gitFailed, error, exitCode, output, incBase, incExisting>>

NextInc == IncApply

SpecInc == InitInc /\ [][NextInc]_vars

\* ------------------------------------------------------------ properties
Mutated == invoked # <<>> \/ gitCalls # <<>>

HasOutput(kind, text) == \E i \in 1..Len(output) : output[i] = Out(kind, text)

KeepsAll(old, new) == \A i \in 1..Len(old) : ArrayIncludes(new, old[i])

\* C1: a run with --dry-run never invokes createBranch or pushBranch nor any
\* checkout, pull or push, never changes the repository, and when it gets
\* past the existence checks it returns having reported the branch name and
\* the base branch that would be used.
C1_DryRunNoMutation ==
  /\ [](options.dryRun =>
          /\ ~Mutated
          /\ pc = "returned" =>
               /\ HasOutput("Would create branch", branchName)
               /\ HasOutput("From base branch", config.baseBranch))
  /\ [][options.dryRun => UNCHANGED repoVars]_vars

C1_Witness ==
  /\ options.dryRun /\ options.interactive /\ options.push
  /\ pc = "done" /\ exitCode = 0
  /\ HasOutput("Would create branch", branchName)

\* the versions of a list that carry the base: the base itself or the base
\* followed by a dot and a number
WellFormed(base, v) ==
  \/ v = base
  \/ /\ StartsWith(v, base \o Dot)
     /\ Len(v) > Len(base) + 1
     /\ \A i \in (Len(base) + 2)..Len(v) : IsDigit(v[i])

SuffixOf(base, v) ==
  IF v = base THEN 0 ELSE DigitPrefixVal(SubSeq(v, Len(base) + 2, Len(v)), 0)

\* C2: when the base version is in use, the result is base.(n + 1) with n the
\* highest suffix among the existing versions of that base, the bare base
\* counting as suffix 0.
C2_IncrementAboveHighestSuffix ==
  LET matching == {i \in 1..Len(incExisting) : StartsWith(incExisting[i], incBase)}
  IN (/\ incPc = "done"
      /\ matching # {}
      /\ \A i \in matching : WellFormed(incBase, incExisting[i]))
     => \E i \in matching :
          /\ \A j \in matching :
               SuffixOf(incBase, incExisting[j]) <= SuffixOf(incBase, incExisting[i])
          /\ incResult = incBase \o Dot \o
                           IntToString(SuffixOf(incBase, incExisting[i]) + 1)

\* C3: the base version comes back unchanged exactly when no existing version
\* starts with it; every lexical prefix match yields the base followed by a
\* dot and a number.
C3_UnchangedIffNoPrefixMatch ==
  incPc = "done" =>
    LET collides == \E i \in 1..Len(incExisting) : StartsWith(incExisting[i], incBase)
    IN /\ (incResult = incBase) <=> ~collides
       /\ collides =>
            /\ StartsWith(incResult, incBase \o Dot)
            /\ Len(incResult) > Len(incBase) + 1

C3_Witness ==
  /\ incPc = "done"
  /\ incBase = <<"2", "0", "2", "4", ".", "1">>
  /\ incExisting = << <<"2", "0", "2", "4", ".", "1", "0", ".", "1">> >>
  /\ incResult = <<"2", "0", "2", "4", ".", "1", ".", "2">>

\* C4: createBranch is invoked only after isGitRepo returned true and both
\* branchExists and remoteBranchExists returned false; a failed repository
\* check or a target reported to exist locally (checked first) or remotely
\* fails the run with its own error and status 1 before any mutation.
C4_ChecksBeforeCreate ==
  /\ Mutated => isRepoResult = "true" /\ localExists = "false" /\ remoteExists = "false"
  /\ isRepoResult = "false" =>
       /\ error = "NotARepository" /\ localExists = "unknown" /\ remoteExists = "unknown"
  /\ localExists = "true" => error = "ExistsLocally" /\ remoteExists = "unknown"
  /\ remoteExists = "true" => error = "ExistsRemote" /\ localExists = "false"
  /\ (isRepoResult = "false" \/ localExists = "true" \/ remoteExists = "true") =>
       /\ ~Mutated
       /\ pc \in {"thrown", "done"}
       /\ pc = "done" => exitCode = 1

C4_Witness ==
  /\ localExists = "true" /\ error = "ExistsLocally" /\ pc = "done" /\ exitCode = 1

\* C5 as stated: in every run that is not a dry run, interactive or not,
\* createBranch and pushBranch are invoked only after the user answered the
\* confirmation with yes.
C5_ConfirmBeforeCreateAlways == Mutated => confirmAnswer = "yes"

\* C5 amended: without --interactive the confirmation comes first and a
\* declined run ends cleanly with no mutation; with --interactive (and in a
\* dry run) the yes/no question is never asked.
C5_ConfirmBeforeCreate ==
  /\ [](/\ (~options.interactive /\ Mutated) => confirmAnswer = "yes"
        /\ confirmAnswer = "no" =>
             /\ ~Mutated /\ error = "none" /\ pc \in {"returned", "done"}
             /\ pc = "done" => exitCode = 0
        /\ (options.interactive \/ options.dryRun) => confirmAnswer = "unasked")
  /\ [][confirmAnswer = "no" => UNCHANGED repoVars]_vars

C5_Witness == confirmAnswer = "no" /\ pc = "done" /\ exitCode = 0 /\ options.push

MutatingCalls == {"checkout", "pull", "checkoutLocalBranch", "push"}

Fatal ==
  \/ "status" \in gitFailed
  \/ "repoInfo" \in gitFailed
  \/ localExists = "true"
  \/ remoteExists = "true"
  \/ gitFailed \cap MutatingCalls # {}

\* C6: a run ends with exactly one outcome: status 1 with an error message
\* exactly when a fatal error occurred, status 0 otherwise (branch created,
\* dry-run exit, declined confirmation).
C6_ExitStatus ==
  /\ pc # "done" => exitCode = -1
  /\ pc = "done" =>
       /\ exitCode \in {0, 1}
       /\ exitCode = 1 <=> Fatal
       /\ exitCode = 1 <=> error # "none"
       /\ exitCode = 1 <=> HasOutput("Error", <<>>)
       /\ exitCode = 0 =>
            \/ HasOutput("Release branch created", branchName)
            \/ HasOutput("Would create branch", branchName)
            \/ HasOutput("Cancelled", <<>>)

C6_Witness == pc = "done" /\ exitCode = 1 /\ "repoInfo" \in gitFailed

\* C7: a failed tag listing or local-branch listing never aborts the run: the
\* wrapper returns an empty list, the run goes on to the existence checks,
\* and the final version comes from what the other listing returned (the
\* base version itself when both failed).
C7_ListingFailureTolerated ==
  /\ ("tags" \in gitFailed /\ localExists = "unknown") =>
       /\ pc \in {"getMatchingBranches", "branchExists"}
       /\ existingTags = <<>>
  /\ ("branchLocal.list" \in gitFailed /\ localExists = "unknown") =>
       /\ pc = "branchExists"
       /\ existingBranches = <<>>
  /\ pc = "branchExists" =>
       LET fromTags == IF "tags" \in gitFailed THEN <<>>
                       ELSE SelectSeq(tags, LAMBDA t : Matches(t, TagPattern(baseVersion)))
           fromBranches == IF "branchLocal.list" \in gitFailed THEN <<>>
                           ELSE SelectSeq(localBranches,
                                          LAMBDA b : Matches(b, BranchPattern(baseVersion)))
       IN /\ finalVersion =
               generateIncremental(baseVersion, ExistingVersions(fromTags, fromBranches))
          /\ {"tags", "branchLocal.list"} \subseteq gitFailed => finalVersion = baseVersion

C7_Witness ==
  /\ {"tags", "branchLocal.list"} \subseteq gitFailed
  /\ tags # <<>>
  /\ pc = "done" /\ exitCode = 0
  /\ finalVersion = baseVersion

Rank(op) ==
  CASE op = "checkout" -> 1
    [] op = "pull" -> 2
    [] op = "checkoutLocalBranch" -> 3
    [] op = "push" -> 4

Succeeded(op) == \E i \in 1..Len(gitCalls) : gitCalls[i].op = op /\ gitCalls[i].ok

\* C8: checkout(base), pull, create-branch and push are each attempted at
\* most once and in that order; the first failure ends the run with status 1
\* with no later step attempted; what already succeeded stays (base branch
\* checked out, release branch created); nothing is ever deleted.
C8_NoRetryNoRollback ==
  /\ [](/\ \A i, j \in 1..Len(gitCalls) :
             i < j => Rank(gitCalls[i].op) < Rank(gitCalls[j].op) /\ gitCalls[i].ok
        /\ (gitCalls # <<>> /\ ~gitCalls[Len(gitCalls)].ok) =>
             /\ pc \in {"thrown", "done"}
             /\ pc = "done" => exitCode = 1
        /\ Succeeded("checkoutLocalBranch") =>
             ArrayIncludes(localBranches, branchName) /\ currentBranch = branchName
        /\ (Succeeded("checkout") /\ ~Succeeded("checkoutLocalBranch")) =>
             currentBranch = config.baseBranch)
  /\ [][/\ KeepsAll(tags, tags')
        /\ KeepsAll(localBranches, localBranches')
        /\ KeepsAll(remoteBranches, remoteBranches')]_vars

C8_Witness ==
  /\ pc = "done" /\ exitCode = 1
  /\ Succeeded("checkout") /\ Succeeded("pull") /\ Succeeded("checkoutLocalBranch")
  /\ "push" \in gitFailed
  /\ ArrayIncludes(localBranches, branchName)
  /\ ~ArrayIncludes(remoteBranches, Origin \o Slash \o branchName)

\* C9: pushBranch is invoked at most once, for the branch this run created,
\* after createBranch succeeded, and only when push was requested (the flag,
\* or the interactive answer); without a request nothing is published.
C9_PushOnlyWhenRequested ==
  /\ [](/\ Cardinality({i \in 1..Len(invoked) : invoked[i][1] = "pushBranch"}) <= 1
        /\ Cardinality({i \in 1..Len(gitCalls) : gitCalls[i].op = "push"}) <= 1
        /\ \A i \in 1..Len(invoked) :
             invoked[i][1] = "pushBranch" =>
               /\ invoked[i] = <<"pushBranch", ReleasePrefix \o finalVersion, Origin>>
               /\ Succeeded("checkoutLocalBranch")
               /\ \E j \in 1..Len(gitCalls) :
                    gitCalls[j] = GitCall("checkoutLocalBranch", invoked[i][2], TRUE)
               /\ config.push
               /\ ~options.interactive => options.push
        /\ \A i \in 1..Len(gitCalls) :
             gitCalls[i].op = "push" =>
               /\ gitCalls[i].arg = Origin \o Slash \o ReleasePrefix \o finalVersion
               /\ \E j \in 1..Len(invoked) : invoked[j][1] = "pushBranch")
  /\ [][remoteBranches' # remoteBranches => pc = "push" /\ config.push]_vars

C9_Witness ==
  /\ options.interactive /\ ~options.push /\ config.push
  /\ Succeeded("push")
  /\ pc = "done" /\ exitCode = 0

\* C10: remoteBranchExists returns true only when a remote-tracking branch is
\* named exactly remote/name, so a run is rejected with "already exists on
\* remote" only when that very branch is on the remote.
C10_ExactRemoteMatch ==
  remoteExists = "true" =>
    ArrayIncludes(remoteBranches, Origin \o Slash \o branchName)

====
